---- MODULE Spec2Model ----
(***************************************************************************)
(* Conv-TasNet (src/src/conv_tasnet.py): construction of the network,      *)
(* the forward pass on tensor shapes, checkpoint packages, the causal      *)
(* depthwise convolution, the softmax mask and the two layer               *)
(* normalizations.  Tensors are modelled by their shapes where only the    *)
(* shape matters, and by exact (rational) values over small integer        *)
(* inputs where the values matter.                                         *)
(***************************************************************************)
EXTENDS Integers, Sequences, FiniteSets, TLC

VARIABLES pc, args, model, mixture, est_source, package, loaded,
          cv, mk, nm

vars == <<pc, args, model, mixture, est_source, package, loaded, cv, mk, nm>>

(***************************************************************************)
(* Bounds of the model.                                                    *)
(***************************************************************************)
MaxDim == 2
MaxP == 2
MaxX == 2
MaxR == 2
MaxM == 2
MaxK == 2
MaxStep == 1
MaxEpoch == 1
MaxDrop == 2
MaxKernel == 3
MaxBlock == 3
MaxLen == 3
MaxSample == 1
MaxScore == 2
MaxVal == 2

(* EPS = 1e-8, as 1 / EPSInv *)
EPSInv == 100000000

(* The hyper-parameters and input sizes of the self-test at the end of     *)
(* conv_tasnet.py.                                                         *)
TestM == 2
TestK == 3
TestN == 3
TestL == 4
TestB == 2
TestH == 3
TestP == 2
TestX == 3
TestR == 2
TestC == 2

(* norm_type strings: the three documented ones and an unrecognized one.   *)
NormTypes == {"gLN", "cLN", "BN", "LN"}

None == [none |-> TRUE]

(***************************************************************************)
(* Tensors at the level of shapes: a tensor, or the exception raised.      *)
(***************************************************************************)
Tensor(s) == [ok |-> TRUE, err |-> "", shape |-> s]
Raise(e) == [ok |-> FALSE, err |-> e, shape |-> <<>>]

Max2(a, b) == IF a >= b THEN a ELSE b

(* torch broadcasting of two shapes of the same rank *)
Broadcast(a, b) ==
  IF Len(a) # Len(b) THEN Raise("RuntimeError")
  ELSE IF \A i \in 1..Len(a) : a[i] = b[i] \/ a[i] = 1 \/ b[i] = 1
       THEN Tensor([i \in 1..Len(a) |-> IF a[i] = 1 THEN b[i] ELSE a[i]])
       ELSE Raise("RuntimeError")

(***************************************************************************)
(* nn.Conv1d without bias: its attributes and its forward on [M, Cin, Lin].*)
(***************************************************************************)
Conv1d(in_channels, out_channels, kernel_size, stride, padding, dilation, groups) ==
  [in_channels |-> in_channels, out_channels |-> out_channels,
   kernel_size |-> kernel_size, stride |-> stride, padding |-> padding,
   dilation |-> dilation, groups |-> groups]

Conv1dForward(conv, t) ==
  IF ~t.ok THEN t
  ELSE LET s == t.shape
           span == conv.dilation * (conv.kernel_size - 1) + 1
           padded == s[3] + 2 * conv.padding
       IN IF s[2] # conv.in_channels THEN Raise("RuntimeError")
          ELSE IF padded < span THEN Raise("RuntimeError")
          ELSE Tensor(<<s[1], conv.out_channels,
                        ((padded - span) \div conv.stride) + 1>>)

(***************************************************************************)
(* Chomp1d: x[:, :, :-chomp_size].  In Python the stop index -0 is 0, so a *)
(* chomp_size of 0 keeps nothing.                                          *)
(***************************************************************************)
Chomp1d(chomp_size) == [chomp_size |-> chomp_size]

ChompLen(chomp_size, len) ==
  IF chomp_size = 0 THEN 0
  ELSE IF len - chomp_size < 0 THEN 0 ELSE len - chomp_size

Chomp1dForward(chomp, t) ==
  IF ~t.ok THEN t
  ELSE Tensor(<<t.shape[1], t.shape[2], ChompLen(chomp.chomp_size, t.shape[3])>>)

(***************************************************************************)
(* The normalization layers and their selection.                           *)
(***************************************************************************)
ChannelwiseLayerNorm(channel_size) ==
  [kind |-> "ChannelwiseLayerNorm", channel_size |-> channel_size]

GlobalLayerNorm(channel_size) ==
  [kind |-> "GlobalLayerNorm", channel_size |-> channel_size]

BatchNorm1d(channel_size) ==
  [kind |-> "BatchNorm1d", channel_size |-> channel_size]

(* chose_norm with the branches for "cLN" and for the default exchanged *)
chose_norm_DefaultChannelwise(norm_type, channel_size) ==
  IF norm_type = "gLN" THEN GlobalLayerNorm(channel_size)
  ELSE IF norm_type = "BN" THEN BatchNorm1d(channel_size)
  ELSE ChannelwiseLayerNorm(channel_size)

chose_norm(norm_type, channel_size) ==
  IF norm_type = "gLN" THEN GlobalLayerNorm(channel_size)
  ELSE IF norm_type = "cLN" THEN ChannelwiseLayerNorm(channel_size)
  ELSE BatchNorm1d(channel_size)

(* gamma [1, N, 1] and beta [1, N, 1] broadcast against y [M, N, K]; the   *)
(* statistics keep the reduced axes (keepdim), so y - mean has y's shape.  *)
(* BatchNorm1d in training mode (the mode of a constructed module) first   *)
(* wants more than one value per channel, then the declared channel count. *)
NormForward(norm, t) ==
  IF ~t.ok THEN t
  ELSE IF norm.kind = "BatchNorm1d"
       THEN IF t.shape[1] * t.shape[3] = 1 THEN Raise("ValueError")
            ELSE IF t.shape[2] # norm.channel_size THEN Raise("RuntimeError")
            ELSE t
       ELSE Broadcast(<<1, norm.channel_size, 1>>, t.shape)

(***************************************************************************)
(* DepthwiseSeparableConv and TemporalBlock.  nn.PReLU() has one learnable *)
(* slope and keeps the shape of its input.                                 *)
(***************************************************************************)
PReLU == [num_parameters |-> 1]

DepthwiseSeparableConv(in_channels, out_channels, kernel_size, stride, padding, dilation, norm_type) ==
  [depthwise_conv |-> Conv1d(in_channels, in_channels, kernel_size, stride,
                             padding, dilation, in_channels),
   chomp |-> Chomp1d(padding),
   prelu |-> PReLU,
   norm |-> chose_norm(norm_type, in_channels),
   pointwise_conv |-> Conv1d(in_channels, out_channels, 1, 1, 0, 1, 1)]

DepthwiseSeparableConvForward(ds, t) ==
  Conv1dForward(ds.pointwise_conv,
    NormForward(ds.norm,
      Chomp1dForward(ds.chomp,
        Conv1dForward(ds.depthwise_conv, t))))

TemporalBlock(in_channels, out_channels, kernel_size, stride, padding, dilation, norm_type) ==
  [conv1x1 |-> Conv1d(in_channels, out_channels, 1, 1, 0, 1, 1),
   prelu |-> PReLU,
   norm |-> chose_norm(norm_type, out_channels),
   dsconv |-> DepthwiseSeparableConv(out_channels, in_channels, kernel_size,
                                     stride, padding, dilation, norm_type)]

TemporalBlockForward(blk, t) ==
  IF ~t.ok THEN t
  ELSE LET out == DepthwiseSeparableConvForward(blk.dsconv,
                    NormForward(blk.norm, Conv1dForward(blk.conv1x1, t)))
       IN IF ~out.ok THEN out ELSE Broadcast(out.shape, t.shape)

(***************************************************************************)
(* TemporalConvNet: R repeats of X blocks, block x with dilation 2**x.     *)
(***************************************************************************)
(* a dilation that grows by one per block instead of doubling *)
BlockDilation_Linear(x) == x + 1

BlockDilation(x) == 2 ^ x

BlockPadding(P, x) == (P - 1) * BlockDilation(x)

TemporalConvNet(N, B, H, P, X, R, C, norm_type) ==
  [N |-> N, B |-> B, H |-> H, P |-> P, X |-> X, R |-> R, C |-> C,
   layer_norm |-> ChannelwiseLayerNorm(N),
   bottleneck_conv1x1 |-> Conv1d(N, B, 1, 1, 0, 1, 1),
   temporal_conv_net |->
     [r \in 1..R |->
       [i \in 1..X |->
         TemporalBlock(B, H, P, 1, BlockPadding(P, i - 1),
                       BlockDilation(i - 1), norm_type)]],
   mask_conv1x1 |-> Conv1d(B, C * N, 1, 1, 0, 1, 1)]

RECURSIVE BlocksForward(_, _, _)
BlocksForward(blocks, n, t) ==
  IF n = 0 THEN t
  ELSE TemporalBlockForward(blocks[n], BlocksForward(blocks, n - 1, t))

RECURSIVE RepeatsForward(_, _, _)
RepeatsForward(repeats, n, t) ==
  IF n = 0 THEN t
  ELSE BlocksForward(repeats[n], Len(repeats[n]),
                     RepeatsForward(repeats, n - 1, t))

(* mixture_w [M, K, N] -> est_mask [M, K, C, N] *)
TemporalConvNetForward(sep, t) ==
  IF ~t.ok THEN t
  ELSE LET M == t.shape[1]
           K == t.shape[2]
           N == t.shape[3]
           x == Tensor(<<M, N, K>>)
           score == Conv1dForward(sep.mask_conv1x1,
                      RepeatsForward(sep.temporal_conv_net,
                                     Len(sep.temporal_conv_net),
                        Conv1dForward(sep.bottleneck_conv1x1,
                          NormForward(sep.layer_norm, x))))
       IN IF ~score.ok THEN score
          ELSE IF score.shape[1] * score.shape[3] * score.shape[2]
                    # M * K * sep.C * N
               THEN Raise("RuntimeError")
          ELSE Tensor(<<M, K, sep.C, N>>)

(***************************************************************************)
(* Encoder, Decoder and the top-level network.                             *)
(***************************************************************************)
Encoder(L, N) == [L |-> L, N |-> N, conv1d_U |-> Conv1d(L, N, 1, 1, 0, 1, 1)]

(* mixture [M, K, L] -> mixture_w [M, K, N] *)
EncoderForward(enc, t) ==
  IF ~t.ok THEN t
  ELSE LET w == Conv1dForward(enc.conv1d_U,
                  Tensor(<<t.shape[1], t.shape[3], t.shape[2]>>))
       IN IF ~w.ok THEN w
          ELSE Tensor(<<w.shape[1], w.shape[3], w.shape[2]>>)

Decoder(N, L) == [N |-> N, L |-> L]

(* mixture_w [M, K, N], est_mask [M, K, C, N] -> est_source [M, C, K, L] *)
DecoderForward(dec, w, mask) ==
  IF ~w.ok THEN w
  ELSE IF ~mask.ok THEN mask
  ELSE LET source_w == Broadcast(<<w.shape[1], w.shape[2], 1, w.shape[3]>>,
                                 mask.shape)
       IN IF ~source_w.ok THEN source_w
          ELSE IF source_w.shape[4] # dec.N THEN Raise("RuntimeError")
          ELSE Tensor(<<source_w.shape[1], source_w.shape[3],
                        source_w.shape[2], dec.L>>)

ConvTasNet(N, L, B, H, P, X, R, C, norm_type) ==
  [N |-> N, L |-> L, B |-> B, H |-> H, P |-> P, X |-> X, R |-> R, C |-> C,
   encoder |-> Encoder(L, N),
   separator |-> TemporalConvNet(N, B, H, P, X, R, C, norm_type),
   decoder |-> Decoder(N, L),
   params |-> 0]

ConvTasNetForward(net, t) ==
  LET mixture_w == EncoderForward(net.encoder, t)
      est_mask == TemporalConvNetForward(net.separator, mixture_w)
  IN DecoderForward(net.decoder, mixture_w, est_mask)

(***************************************************************************)
(* Checkpoint packages.  A state_dict is the set of the network's tensors  *)
(* (owner, name, shape) with the parameter values they carry; the values   *)
(* are abstracted to the number of optimizer steps that produced them.     *)
(***************************************************************************)
Entry(owner, r, x, name, shape) ==
  [owner |-> owner, r |-> r, x |-> x, name |-> name, shape |-> shape]

ConvEntries(owner, r, x, conv) ==
  {Entry(owner, r, x, "weight",
         <<conv.out_channels, conv.in_channels \div conv.groups,
           conv.kernel_size>>)}

NormEntries(owner, r, x, norm) ==
  IF norm.kind = "BatchNorm1d"
  THEN {Entry(owner, r, x, nme, <<norm.channel_size>>) :
          nme \in {"weight", "bias", "running_mean", "running_var"}}
       \cup {Entry(owner, r, x, "num_batches_tracked", <<>>)}
  ELSE {Entry(owner, r, x, nme, <<1, norm.channel_size, 1>>) :
          nme \in {"gamma", "beta"}}

BlockEntries(r, x, blk) ==
  ConvEntries("conv1x1", r, x, blk.conv1x1)
  \cup {Entry("prelu", r, x, "weight", <<blk.prelu.num_parameters>>)}
  \cup NormEntries("norm", r, x, blk.norm)
  \cup ConvEntries("dsconv.depthwise_conv", r, x, blk.dsconv.depthwise_conv)
  \cup {Entry("dsconv.prelu", r, x, "weight", <<blk.dsconv.prelu.num_parameters>>)}
  \cup NormEntries("dsconv.norm", r, x, blk.dsconv.norm)
  \cup ConvEntries("dsconv.pointwise_conv", r, x, blk.dsconv.pointwise_conv)

ParamEntries(net) ==
  ConvEntries("encoder.conv1d_U", 0, 0, net.encoder.conv1d_U)
  \cup NormEntries("separator.layer_norm", 0, 0, net.separator.layer_norm)
  \cup ConvEntries("separator.bottleneck_conv1x1", 0, 0,
                   net.separator.bottleneck_conv1x1)
  \cup UNION {BlockEntries(r, x, net.separator.temporal_conv_net[r][x]) :
               r \in 1..Len(net.separator.temporal_conv_net),
               x \in 1..net.separator.X}
  \cup ConvEntries("separator.mask_conv1x1", 0, 0, net.separator.mask_conv1x1)
  \cup {Entry("decoder.basis_signals", 0, 0, "weight",
               <<net.decoder.L, net.decoder.N>>)}

state_dict(net) == [entries |-> ParamEntries(net), params |-> net.params]

(* strict loading: the names and shapes must be those of the module *)
load_state_dict(net, sd) ==
  IF ParamEntries(net) = sd.entries
  THEN [ok |-> TRUE, err |-> "", model |-> [net EXCEPT !.params = sd.params]]
  ELSE [ok |-> FALSE, err |-> "RuntimeError", model |-> None]

HyperKeys == {"N", "L", "B", "H", "P", "X", "R", "C"}

serialize(net, optimizer, epoch, tr_loss, cv_loss) ==
  LET pkg == [N |-> net.N, L |-> net.L, B |-> net.B, H |-> net.H,
              P |-> net.P, X |-> net.X, R |-> net.R, C |-> net.C,
              state_dict |-> state_dict(net),
              optim_dict |-> optimizer,
              epoch |-> epoch]
  IN IF tr_loss # None
     THEN pkg @@ [tr_loss |-> tr_loss, cv_loss |-> cv_loss]
     ELSE pkg

(* the constructor is called without norm_type, which defaults to "gLN" *)
load_model_from_package(pkg) ==
  IF \E k \in HyperKeys : k \notin DOMAIN pkg
  THEN [ok |-> FALSE, err |-> "KeyError", model |-> None]
  ELSE LET net == ConvTasNet(pkg["N"], pkg["L"], pkg["B"], pkg["H"],
                             pkg["P"], pkg["X"], pkg["R"], pkg["C"], "gLN")
       IN IF "state_dict" \notin DOMAIN pkg
          THEN [ok |-> FALSE, err |-> "KeyError", model |-> None]
          ELSE load_state_dict(net, pkg["state_dict"])

(***************************************************************************)
(* The network's life: construction, forward, training steps, checkpoint.  *)
(***************************************************************************)
HyperParams(N, L, B, H, P, X, R, C) ==
  [N |-> N, L |-> L, B |-> B, H |-> H, P |-> P, X |-> X, R |-> R, C |-> C]

SelfTest == HyperParams(TestN, TestL, TestB, TestH, TestP, TestX, TestR, TestC)

Configs ==
  {HyperParams(N, L, B, H, P, X, R, C) :
     N \in 1..MaxDim, L \in 1..MaxDim, B \in 1..MaxDim, H \in 1..MaxDim,
     P \in 1..MaxP, X \in 1..MaxX, R \in 1..MaxR, C \in 1..MaxDim}
  \cup {SelfTest}

CkptConfigs ==
  {HyperParams(TestN, TestL, TestB, TestH, P, X, R, TestC) :
     P \in 1..MaxP, X \in 1..MaxX, R \in 1..MaxR}
  \cup {SelfTest}

Idle == [none |-> TRUE]

InitNet(cfgs) ==
  /\ pc = "start"
  /\ args \in {[hp |-> c, norm_type |-> t] : c \in cfgs, t \in NormTypes}
  /\ model = None
  /\ mixture = <<>>
  /\ est_source = None
  /\ package = None
  /\ loaded = None
  /\ cv = Idle
  /\ mk = Idle
  /\ nm = Idle

Init == InitNet(Configs)

InitCkpt == InitNet(CkptConfigs)

Construct ==
  /\ pc = "start"
  /\ model' = ConvTasNet(args.hp.N, args.hp.L, args.hp.B, args.hp.H,
                         args.hp.P, args.hp.X, args.hp.R, args.hp.C,
                         args.norm_type)
  /\ pc' = "built"
  /\ UNCHANGED <<args, mixture, est_source, package, loaded, cv, mk, nm>>

InputSizes ==
  ((1..MaxM) \X (1..MaxK)) \cup {<<TestM, TestK>>}

Forward ==
  /\ pc = "built"
  /\ \E mksz \in InputSizes :
       /\ mixture' = <<mksz[1], mksz[2], model.L>>
       /\ est_source' = ConvTasNetForward(model, Tensor(mixture'))
  /\ pc' = "forwarded"
  /\ UNCHANGED <<args, model, package, loaded, cv, mk, nm>>

Next == Construct \/ Forward

Spec == Init /\ [][Next]_vars

(* one optimizer step changes the parameter values *)
Train ==
  /\ pc = "built"
  /\ model.params < MaxStep
  /\ model' = [model EXCEPT !.params = @ + 1]
  /\ UNCHANGED <<pc, args, mixture, est_source, package, loaded, cv, mk, nm>>

Losses == {None, [none |-> FALSE, val |-> <<1>>]}

Optimizers == {[state |-> "SGD"], [state |-> "Adam"]}

Serialize ==
  /\ pc = "built"
  /\ \E optimizer \in Optimizers, epoch \in 0..MaxEpoch, tr_loss \in Losses :
       package' = serialize(model, optimizer, epoch, tr_loss, tr_loss)
  /\ pc' = "packed"
  /\ UNCHANGED <<args, model, mixture, est_source, loaded, cv, mk, nm>>

RequiredKeys == HyperKeys \cup {"state_dict"}

CoreKeys == RequiredKeys \cup {"optim_dict", "epoch"}

(* a package read back from disk may lack keys *)
DropKey ==
  /\ pc = "packed"
  /\ \E k \in CoreKeys \cap DOMAIN package :
       /\ Cardinality(CoreKeys \ (DOMAIN package \ {k})) <= MaxDrop
       /\ package' = [j \in DOMAIN package \ {k} |-> package[j]]
  /\ UNCHANGED <<pc, args, model, mixture, est_source, loaded, cv, mk, nm>>

Load ==
  /\ pc = "packed"
  /\ loaded' = load_model_from_package(package)
  /\ pc' = "loaded"
  /\ UNCHANGED <<args, model, mixture, est_source, package, cv, mk, nm>>

NextCkpt == Construct \/ Train \/ Serialize \/ DropKey \/ Load

SpecCkpt == InitCkpt /\ [][NextCkpt]_vars

(***************************************************************************)
(* Claims about construction and forward (specification Spec).             *)
(***************************************************************************)
Blocks(net) ==
  {net.separator.temporal_conv_net[r][x] :
     r \in 1..Len(net.separator.temporal_conv_net),
     x \in 1..Len(net.separator.temporal_conv_net[1])}

(* C1: forward on a mixture [M, K, L] returns, without raising, a tensor   *)
(* of shape [M, C, K, L], for all positive hyper-parameters and every      *)
(* norm_type.                                                              *)
C1_ForwardShape ==
  pc = "forwarded" =>
    est_source = Tensor(<<mixture[1], args.hp.C, mixture[2], args.hp.L>>)

(* the normalization the selection policy names for a norm_type *)
C5_NormOf(norm_type) ==
  CASE norm_type = "gLN" -> "GlobalLayerNorm"
    [] norm_type = "cLN" -> "ChannelwiseLayerNorm"
    [] OTHER -> "BatchNorm1d"

(* C5: every block's norm and every depthwise-separable convolution's norm *)
(* is, as resolved at construction, the global layer normalization for     *)
(* "gLN", the channel-wise one for "cLN" and batch normalization for every *)
(* other string, sized to the block's channel count H.                     *)
C5_ChoseNorm ==
  pc \in {"built", "forwarded"} =>
    \A blk \in Blocks(model) :
      /\ blk.norm = [kind |-> C5_NormOf(args.norm_type),
                     channel_size |-> args.hp.H]
      /\ blk.dsconv.norm = [kind |-> C5_NormOf(args.norm_type),
                            channel_size |-> args.hp.H]

C5_Witness ==
  /\ pc = "forwarded"
  /\ args.norm_type = "LN"
  /\ args.hp.H = 2
  /\ \A blk \in Blocks(model) :
       blk.norm.kind = "BatchNorm1d" /\ blk.dsconv.norm.channel_size = 2

(* C10: the separator holds exactly R repeats of exactly X blocks; block x *)
(* (from 0) of every repeat has dilation 2^x and padding (P-1)*2^x, which  *)
(* is also what its chomp removes, and all blocks have the same norm.      *)
C10_Dilations ==
  pc \in {"built", "forwarded"} =>
    LET tcn == model.separator.temporal_conv_net
    IN /\ Len(tcn) = args.hp.R
       /\ \A r \in 1..Len(tcn) :
            /\ Len(tcn[r]) = args.hp.X
            /\ \A i \in 1..Len(tcn[r]) :
                 LET conv == tcn[r][i].dsconv.depthwise_conv
                 IN /\ conv.dilation = 2 ^ (i - 1)
                    /\ conv.padding = (args.hp.P - 1) * 2 ^ (i - 1)
                    /\ conv.kernel_size = args.hp.P
                    /\ tcn[r][i].dsconv.chomp.chomp_size = conv.padding
                    /\ i = 1 => conv.dilation = 1
                    /\ tcn[r][i].norm.kind = tcn[1][1].norm.kind
                    /\ tcn[r][i].dsconv.norm.kind = tcn[1][1].norm.kind

C10_Witness ==
  /\ pc = "built"
  /\ args.hp = SelfTest
  /\ Len(model.separator.temporal_conv_net) = 2
  /\ [i \in 1..3 |->
        model.separator.temporal_conv_net[2][i].dsconv.depthwise_conv.dilation]
       = <<1, 2, 4>>

(***************************************************************************)
(* Claims about checkpoints (specification SpecCkpt).                      *)
(***************************************************************************)
(* C2: loading the package serialized from a model gives a model of the    *)
(* same architecture (hyper-parameters and the normalization variant of    *)
(* every block) with the same parameter values, whatever the optimizer.    *)
C2_RoundTrip ==
  (pc = "loaded" /\ RequiredKeys \subseteq DOMAIN package) =>
    loaded.ok /\ loaded.model = model

(* C6: a package with the keys N, L, B, H, P, X, R, C and state_dict loads *)
(* even without optim_dict and epoch; a package lacking one of the nine    *)
(* fails with a key error and yields no model.                             *)
C6_LoadKeys ==
  pc = "loaded" =>
    IF RequiredKeys \subseteq DOMAIN package
    THEN loaded.ok /\ loaded.model # None
    ELSE ~loaded.ok /\ loaded.err = "KeyError" /\ loaded.model = None

(***************************************************************************)
(* The depthwise convolution and the chomp on values: one channel of       *)
(* nn.Conv1d(groups=in_channels, stride=1, bias=False) is a cross-         *)
(* correlation of the channel, zero-padded on both sides, with its kernel. *)
(***************************************************************************)
Zeros(n) == [i \in 1..n |-> 0]

RECURSIVE SumTo(_, _)
SumTo(f, n) == IF n = 0 THEN 0 ELSE f[n] + SumTo(f, n - 1)

Conv1dValues(w, x, padding, dilation) ==
  LET padded == Zeros(padding) \o x \o Zeros(padding)
      span == dilation * (Len(w) - 1) + 1
      n == Len(padded) - span + 1
  IN [t \in 1..n |->
       SumTo([i \in 1..Len(w) |-> w[i] * padded[t + (i - 1) * dilation]],
             Len(w))]

(* a chomp that removes the first chomp_size samples instead of the last *)
Chomp1dValues_Head(x, chomp_size) ==
  SubSeq(x, Len(x) - ChompLen(chomp_size, Len(x)) + 1, Len(x))

Chomp1dValues(x, chomp_size) ==
  SubSeq(x, 1, ChompLen(chomp_size, Len(x)))

DepthwiseChomp(w, x, padding, dilation) ==
  Chomp1dValues(Conv1dValues(w, x, padding, dilation), padding)

KernelWeights == {-1, 1}

(* An input channel u of length K, and the same channel with the sample at *)
(* index j replaced by s.                                                  *)
InitConv ==
  /\ pc = "conv"
  /\ args = None /\ model = None /\ mixture = <<>> /\ est_source = None
  /\ package = None /\ loaded = None /\ mk = Idle /\ nm = Idle
  /\ \E P \in 1..MaxKernel, x \in 0..(MaxBlock - 1), K \in 1..MaxLen :
       \E w \in [1..P -> KernelWeights], u \in [1..K -> 0..MaxSample],
          j \in 1..K, s \in 0..MaxSample :
         cv = [P |-> P, x |-> x, K |-> K, w |-> w, u |-> u,
               j |-> j, v |-> [u EXCEPT ![j] = s],
               done |-> FALSE, out_u |-> <<>>, out_v |-> <<>>]

ApplyDepthwiseChomp ==
  /\ pc = "conv"
  /\ ~cv.done
  /\ cv' = [cv EXCEPT
              !.done = TRUE,
              !.out_u = DepthwiseChomp(cv.w, cv.u, BlockPadding(cv.P, cv.x),
                                       BlockDilation(cv.x)),
              !.out_v = DepthwiseChomp(cv.w, cv.v, BlockPadding(cv.P, cv.x),
                                       BlockDilation(cv.x))]
  /\ UNCHANGED <<pc, args, model, mixture, est_source, package, loaded, mk, nm>>

NextConv == ApplyDepthwiseChomp

SpecConv == InitConv /\ [][NextConv]_vars

(* C4: for every kernel size P >= 1, dilation 2^x and length K >= 1, the   *)
(* convolution padded by (P-1)*d followed by the chomp of (P-1)*d gives an *)
(* output of length K.                                                     *)
C4_SameLength ==
  (pc = "conv" /\ cv.done) => Len(cv.out_u) = cv.K

(* the input sample at index i, zero before the first sample *)
C7_Tap(x, i) == IF i >= 1 THEN x[i] ELSE 0

(* C7: the output at time t is the sum of the taps t-(P-1)d, ..., t-d, t   *)
(* of the input (taps before the first sample read as zero), so that       *)
(* replacing an input sample at an index j > t leaves the output at t      *)
(* unchanged.                                                              *)
C7_Causal ==
  (pc = "conv" /\ cv.done) =>
    LET d == 2 ^ cv.x
    IN /\ Len(cv.out_v) = Len(cv.out_u)
       /\ Len(cv.out_u) <= cv.K
       /\ \A t \in 1..Len(cv.out_u) :
            /\ cv.out_u[t] =
                 SumTo([i \in 1..cv.P |->
                          cv.w[i] * C7_Tap(cv.u, t - (cv.P - i) * d)], cv.P)
            /\ cv.j > t => cv.out_v[t] = cv.out_u[t]

C7_Witness ==
  /\ pc = "conv" /\ cv.done
  /\ cv.P = 3 /\ cv.x = 1 /\ cv.K = 3 /\ cv.j = 3
  /\ Len(cv.out_u) = 3
  /\ cv.out_v[3] # cv.out_u[3]
  /\ cv.out_v[1] = cv.out_u[1] /\ cv.out_v[2] = cv.out_u[2]
  /\ cv.out_u[3] = cv.w[2] * cv.u[1] + cv.w[3] * cv.u[3]

(***************************************************************************)
(* The mask on values.  A score is a small integer s and exp(s) is the     *)
(* monomial e^s; a mask entry exp(s) / sum of exp(s') is kept exactly, as  *)
(* a fraction of polynomials in e (sequences of coefficients, lowest       *)
(* degree first).  e is transcendental, so two such fractions are equal as *)
(* reals exactly when they are equal as rational functions.                *)
(***************************************************************************)
PolyCoef(p, i) == IF i \in 1..Len(p) THEN p[i] ELSE 0

PolyAdd(p, q) ==
  [i \in 1..Max2(Len(p), Len(q)) |-> PolyCoef(p, i) + PolyCoef(q, i)]

PolyMul(p, q) ==
  IF Len(p) = 0 \/ Len(q) = 0 THEN <<>>
  ELSE [i \in 1..(Len(p) + Len(q) - 1) |->
         SumTo([a \in 1..Len(p) |-> p[a] * PolyCoef(q, i - a + 1)], Len(p))]

PolyEq(p, q) ==
  \A i \in 1..Max2(Len(p), Len(q)) : PolyCoef(p, i) = PolyCoef(q, i)

Exp(s) == [i \in 1..(s + 1) |-> IF i = s + 1 THEN 1 ELSE 0]

RECURSIVE PolySum(_, _)
PolySum(f, n) == IF n = 0 THEN <<>> ELSE PolyAdd(f[n], PolySum(f, n - 1))

(* score [M, C*N, K] -> permute((0, 2, 1)) -> view(M, K, C, N) *)
PermuteView(score, M, K, C, N) ==
  [m \in 1..M |-> [k \in 1..K |-> [c \in 1..C |-> [n \in 1..N |->
     score[m][(c - 1) * N + n][k]]]]]

(* a softmax over the filter axis (dim=3) instead of the source axis *)
Softmax_Dim3(v) ==
  [m \in DOMAIN v |-> [k \in DOMAIN v[m] |-> [c \in DOMAIN v[m][k] |->
     [n \in DOMAIN v[m][k][c] |->
        [num |-> Exp(v[m][k][c][n]),
         den |-> PolySum([b \in DOMAIN v[m][k][c] |-> Exp(v[m][k][c][b])],
                         Len(v[m][k][c]))]]]]]

(* F.softmax(score, dim=2) on [M, K, C, N] *)
Softmax(v) ==
  [m \in DOMAIN v |-> [k \in DOMAIN v[m] |-> [c \in DOMAIN v[m][k] |->
     [n \in DOMAIN v[m][k][c] |->
        [num |-> Exp(v[m][k][c][n]),
         den |-> PolySum([b \in DOMAIN v[m][k] |-> Exp(v[m][k][b][n])],
                         Len(v[m][k]))]]]]]

MaskOf(score, M, K, C, N) == Softmax(PermuteView(score, M, K, C, N))

(* The scores the network hands to the softmax: a family of tensors of     *)
(* shape [M, C*N, K] over 0..MaxScore.                                     *)
ScoreTensor(M, J, K, a) ==
  [m \in 1..M |-> [j \in 1..J |-> [k \in 1..K |->
     (a[1] * m + a[2] * k + a[3] * ((j - 1) % 2)
        + a[4] * (((j - 1) \div 2) % 2) + a[5] * ((j - 1) \div 4))
     % (MaxScore + 1)]]]

InitMask ==
  /\ pc = "mask"
  /\ args = None /\ model = None /\ mixture = <<>> /\ est_source = None
  /\ package = None /\ loaded = None /\ cv = Idle /\ nm = Idle
  /\ \E M \in 1..MaxM, K \in 1..MaxK, C \in 1..MaxDim, N \in 1..MaxDim :
       \E a \in [1..5 -> 0..MaxScore] :
         mk = [M |-> M, K |-> K, C |-> C, N |-> N,
               score |-> ScoreTensor(M, C * N, K, a),
               done |-> FALSE, est_mask |-> <<>>]

ApplySoftmax ==
  /\ pc = "mask"
  /\ ~mk.done
  /\ mk' = [mk EXCEPT !.done = TRUE,
                      !.est_mask = MaskOf(mk.score, mk.M, mk.K, mk.C, mk.N)]
  /\ UNCHANGED <<pc, args, model, mixture, est_source, package, loaded, cv, nm>>

NextMask == ApplySoftmax

SpecMask == InitMask /\ [][NextMask]_vars

(* sums of mask entries, as fractions of polynomials in e *)
C3_FracAdd(a, b) ==
  [num |-> PolyAdd(PolyMul(a.num, b.den), PolyMul(b.num, a.den)),
   den |-> PolyMul(a.den, b.den)]

RECURSIVE C3_FracSum(_, _)
C3_FracSum(f, n) ==
  IF n = 1 THEN f[1] ELSE C3_FracAdd(f[n], C3_FracSum(f, n - 1))

(* a fraction of polynomials in e with coefficients >= 0 in num, den - num *)
(* and a nonzero den has a value in [0, 1]                                 *)
C3_InUnit(q) ==
  /\ \A i \in 1..Len(q.num) : q.num[i] >= 0
  /\ \A i \in 1..Max2(Len(q.num), Len(q.den)) :
       PolyCoef(q.den, i) - PolyCoef(q.num, i) >= 0
  /\ \E i \in 1..Len(q.den) : q.den[i] > 0

(* C3: the mask has shape [M, K, C, N], every entry lies in [0, 1] and,    *)
(* for every (batch, frame, filter), the entries over the source axis sum  *)
(* to 1.                                                                   *)
C3_Mask ==
  (pc = "mask" /\ mk.done) =>
    /\ Len(mk.est_mask) = mk.M
    /\ \A m \in 1..mk.M :
         /\ Len(mk.est_mask[m]) = mk.K
         /\ \A k \in 1..mk.K :
              /\ Len(mk.est_mask[m][k]) = mk.C
              /\ \A c \in 1..mk.C :
                   /\ Len(mk.est_mask[m][k][c]) = mk.N
                   /\ \A n \in 1..mk.N : C3_InUnit(mk.est_mask[m][k][c][n])
              /\ \A n \in 1..mk.N :
                   LET total == C3_FracSum([c \in 1..mk.C |->
                                             mk.est_mask[m][k][c][n]], mk.C)
                   IN PolyEq(total.num, total.den)

C3_Witness ==
  /\ pc = "mask" /\ mk.done
  /\ mk.M = 2 /\ mk.K = 2 /\ mk.C = 2 /\ mk.N = 2
  /\ mk.score[1][1][1] = 0 /\ mk.score[1][3][1] = 1
  /\ mk.est_mask[1][1][1][1] = [num |-> <<1>>, den |-> <<1, 1>>]
  /\ mk.est_mask[1][1][2][1] = [num |-> <<0, 1>>, den |-> <<1, 1>>]

(***************************************************************************)
(* The layer normalizations on values.  For integer inputs the normalized  *)
(* value gamma * (y - mean) / (var + EPS)^0.5 + beta is kept exactly: with *)
(* cnt the number of values the statistics run over and S their sum,       *)
(*   y - mean = dev / cnt      where dev = cnt * y - S                     *)
(*   var      = ssq / cnt^3    where ssq = the sum of (cnt * y' - S)^2     *)
(* (the biased variance: the mean of the squared deviations).              *)
(***************************************************************************)
reset_parameters == [gamma |-> 1, beta |-> 0]

Normalized(par, dev, ssq, cnt) ==
  [gamma |-> par.gamma, dev |-> dev, ssq |-> ssq, cnt |-> cnt,
   beta |-> par.beta]

Sign(a) == IF a > 0 THEN 1 ELSE IF a < 0 THEN -1 ELSE 0

(* Whether two normalized values over the same cnt, gamma and beta are the *)
(* same real number:  d1 / (q1/cnt^3 + EPS)^0.5 = d2 / (q2/cnt^3 + EPS)^0.5*)
(* iff the signs agree and EPSInv * (d1^2 q2 - d2^2 q1) = cnt^3 * (d2^2 -  *)
(* d1^2).                                                                  *)
EqualValue(e1, e2) ==
  /\ e1.gamma = e2.gamma /\ e1.beta = e2.beta /\ e1.cnt = e2.cnt
  /\ \/ e1.gamma = 0
     \/ LET lhs == e1.dev * e1.dev * e2.ssq - e2.dev * e2.dev * e1.ssq
            rhs == e1.cnt * e1.cnt * e1.cnt
                     * (e2.dev * e2.dev - e1.dev * e1.dev)
        IN /\ Sign(e1.dev) = Sign(e2.dev)
           /\ IF lhs = 0 THEN rhs = 0
              ELSE rhs % EPSInv = 0 /\ rhs \div EPSInv = lhs

(* statistics over the channel axis and the time axis *)
JointNormalize(y) ==
  [m \in DOMAIN y |-> [n \in DOMAIN y[m] |-> [k \in DOMAIN y[m][n] |->
     LET N == Len(y[m])
         K == Len(y[m][1])
         cnt == N * K
         S == SumTo([c \in 1..N |->
                      SumTo([t \in 1..K |-> y[m][c][t]], K)], N)
     IN Normalized(reset_parameters, cnt * y[m][n][k] - S,
          SumTo([c \in 1..N |->
                   SumTo([t \in 1..K |->
                            (cnt * y[m][c][t] - S) * (cnt * y[m][c][t] - S)],
                         K)], N),
          cnt)]]]

(* a channel-wise normalization whose statistics also run over time *)
ChannelwiseLayerNormForward_OverTime(y) == JointNormalize(y)

(* mean and var over the channel axis (dim=1), per batch element and time  *)
ChannelwiseLayerNormForward(y) ==
  [m \in DOMAIN y |-> [n \in DOMAIN y[m] |-> [k \in DOMAIN y[m][n] |->
     LET cnt == Len(y[m])
         S == SumTo([c \in 1..cnt |-> y[m][c][k]], cnt)
     IN Normalized(reset_parameters, cnt * y[m][n][k] - S,
          SumTo([c \in 1..cnt |->
                   (cnt * y[m][c][k] - S) * (cnt * y[m][c][k] - S)], cnt),
          cnt)]]]

(* a global normalization whose statistics run over the channels only *)
GlobalLayerNormForward_PerStep(y) == ChannelwiseLayerNormForward(y)

(* mean and var over the channel axis and then the time axis (dim=1, then  *)
(* dim=2), per batch element                                               *)
GlobalLayerNormForward(y) ==
  [m \in DOMAIN y |-> [n \in DOMAIN y[m] |-> [k \in DOMAIN y[m][n] |->
     LET N == Len(y[m])
         K == Len(y[m][1])
         cnt == N * K
         S == SumTo([c \in 1..N |->
                      SumTo([t \in 1..K |-> y[m][c][t]], K)], N)
     IN Normalized(reset_parameters, cnt * y[m][n][k] - S,
          SumTo([c \in 1..N |->
                   SumTo([t \in 1..K |->
                            (cnt * y[m][c][t] - S) * (cnt * y[m][c][t] - S)],
                         K)], N),
          cnt)]]]

(* Inputs y [M, N, K] over 0..MaxVal, and y with the values of one batch   *)
(* element m0 at one time step k0 replaced by other values.                *)
NormInput(M, N, K, a) ==
  [m \in 1..M |-> [n \in 1..N |-> [k \in 1..K |->
     (a[1] * n + a[2] * k + (m - 1)) % (MaxVal + 1)]]]

Perturbed(y, m0, k0, col) ==
  [m \in DOMAIN y |-> [n \in DOMAIN y[m] |-> [k \in DOMAIN y[m][n] |->
     IF m = m0 /\ k = k0 THEN col[n] ELSE y[m][n][k]]]]

InitNorm ==
  /\ pc = "norm"
  /\ args = None /\ model = None /\ mixture = <<>> /\ est_source = None
  /\ package = None /\ loaded = None /\ cv = Idle /\ mk = Idle
  /\ \E M \in 1..MaxM, N \in 1..MaxDim, K \in 1..MaxK :
       \E a \in [1..2 -> 0..MaxVal], m0 \in 1..M, k0 \in 1..K,
          col \in [1..N -> 0..MaxVal] :
         /\ \E n \in 1..N : col[n] # NormInput(M, N, K, a)[m0][n][k0]
         /\ nm = [M |-> M, N |-> N, K |-> K, m0 |-> m0, k0 |-> k0,
                  y |-> NormInput(M, N, K, a),
                  y2 |-> Perturbed(NormInput(M, N, K, a), m0, k0, col),
                  layer |-> "none", out |-> <<>>, out2 |-> <<>>]

ApplyChannelwiseLayerNorm ==
  /\ pc = "norm"
  /\ nm.layer = "none"
  /\ nm' = [nm EXCEPT !.layer = "cLN",
                      !.out = ChannelwiseLayerNormForward(nm.y),
                      !.out2 = ChannelwiseLayerNormForward(nm.y2)]
  /\ UNCHANGED <<pc, args, model, mixture, est_source, package, loaded, cv, mk>>

ApplyGlobalLayerNorm ==
  /\ pc = "norm"
  /\ nm.layer = "none"
  /\ nm' = [nm EXCEPT !.layer = "gLN",
                      !.out = GlobalLayerNormForward(nm.y),
                      !.out2 = GlobalLayerNormForward(nm.y2)]
  /\ UNCHANGED <<pc, args, model, mixture, est_source, package, loaded, cv, mk>>

NextNorm == ApplyChannelwiseLayerNorm \/ ApplyGlobalLayerNorm

SpecNorm == InitNorm /\ [][NextNorm]_vars

(* the normalized output of batch element m changed at time step k *)
StepChanged(m, k) ==
  \E n \in 1..nm.N : ~EqualValue(nm.out[m][n][k], nm.out2[m][n][k])

(* C8, as stated: perturbing one time step of one batch element changes    *)
(* the global layer normalization's output of that element at every time   *)
(* step (here already for inputs with at least two channels and two time   *)
(* steps).                                                                 *)
C8_AllStepsChange ==
  (pc = "norm" /\ nm.layer = "gLN" /\ nm.N >= 2 /\ nm.K >= 2) =>
    \A k \in 1..nm.K : StepChanged(nm.m0, k)

C8_Sum(y, m) ==
  SumTo([n \in 1..nm.N |-> SumTo([k \in 1..nm.K |-> y[m][n][k]], nm.K)],
        nm.N)

C8_SumSq(y, m) ==
  SumTo([n \in 1..nm.N |->
           SumTo([k \in 1..nm.K |-> y[m][n][k] * y[m][n][k]], nm.K)], nm.N)

(* the perturbation changes the joint mean or the joint variance *)
C8_StatsChanged ==
  \/ C8_Sum(nm.y, nm.m0) # C8_Sum(nm.y2, nm.m0)
  \/ C8_SumSq(nm.y, nm.m0) # C8_SumSq(nm.y2, nm.m0)

C8_StepConstant(k) ==
  \A n \in 1..nm.N : nm.y[nm.m0][n][k] = nm.y[nm.m0][1][k]

(* C8, amended: the time steps are coupled through the joint mean and      *)
(* variance.  When the perturbation of time step k0 changes the joint mean *)
(* or variance, the output changes at every other time step whose channel  *)
(* values are not all equal; when it changes neither, the output at every  *)
(* other time step is unchanged; other batch elements never change.        *)
C8_CoupledThroughStats ==
  (pc = "norm" /\ nm.layer = "gLN") =>
    /\ \A m \in 1..nm.M : m # nm.m0 =>
         \A k \in 1..nm.K : ~StepChanged(m, k)
    /\ \A k \in 1..nm.K : k # nm.k0 =>
         IF C8_StatsChanged
         THEN ~C8_StepConstant(k) => StepChanged(nm.m0, k)
         ELSE ~StepChanged(nm.m0, k)

C8_Witness ==
  /\ pc = "norm" /\ nm.layer = "gLN"
  /\ nm.M = 2 /\ nm.N = 2 /\ nm.K = 2
  /\ C8_StatsChanged
  /\ \E k \in 1..nm.K :
       k # nm.k0 /\ ~C8_StepConstant(k) /\ StepChanged(nm.m0, k)

(* C9: channel-wise layer normalization has no cross-time leakage: for     *)
(* inputs that differ only at time step k0 of one batch element, the       *)
(* outputs are equal at every other time step and at every other batch     *)
(* element.                                                                *)
C9_NoCrossTimeLeak ==
  (pc = "norm" /\ nm.layer = "cLN") =>
    \A m \in 1..nm.M, k \in 1..nm.K :
      (m # nm.m0 \/ k # nm.k0) => ~StepChanged(m, k)

C9_Witness ==
  /\ pc = "norm" /\ nm.layer = "cLN"
  /\ nm.M = 2 /\ nm.N = 2 /\ nm.K = 2
  /\ StepChanged(nm.m0, nm.k0)
  /\ \E k \in 1..nm.K : k # nm.k0 /\ ~C8_StepConstant(k)

====
